---- MODULE Spec2Model ----
(***************************************************************************)
(* Model of src/dht22.c: the DHT22 pulse decoder, the polling thread, the  *)
(* shared reading cache and the start/get/terminate lifecycle.             *)
(*                                                                         *)
(* A C float is modelled as a sign bit and a magnitude in tenths, so that  *)
(* "/ 10.0" is a change of unit and "c = -c" flips the sign bit (also of   *)
(* a zero magnitude, as IEEE-754 does).                                    *)
(***************************************************************************)
EXTENDS Integers, Sequences, FiniteSets, TLC

\* ---------------------------------------------------------------- constants
MAX_TIMINGS == 85
SENSOR_POLL_INTERVAL_SEC == 10
MAX_READ_ATTEMPTS == 5
\* counter == 255 ends a pulse and the capture (lines 51 and 55)
PulseCap == 255
\* counter > 25 reads as bit 1 (line 65)
BitThreshold == 25
\* the result of pthread_timedjoin_np when the wait timed out (ETIMEDOUT)
ETIMEDOUT == 110
\* the exit status of a process ended by abort(): 128 + SIGABRT
EXIT_SIGABRT == 134

\* number of polling threads the model holds at a time (running, or ended and
\* not yet joined): the caller asks for a new session only while the thread
\* it would create fits
MaxThreads == 2

\* the GPIO number handed to dht22_start_polling
Pins == {4}

\* values of g_data_mutex besides the ids 1.. of the polling threads: not
\* locked, and locked by the thread that calls the public functions
Free == 0
Caller == -1

Float(neg, mag) == [neg |-> neg, mag |-> mag]
Zero == Float(FALSE, 0)
\* the caller's output variables before dht22_get_last_valid_reading wrote them
Unset == Float(FALSE, -1)

\* ------------------------------------------------------------ frame decoder
\* line 47-53: the count of one pulse; a line that no longer changes level
\* (the train is exhausted) counts up to the cap.
PulseCount(train, i) == IF i + 1 <= Len(train) THEN train[i + 1] ELSE PulseCap

\* lines 61-66: shift the byte left and or the bit in
BitOf(counter) == IF counter > BitThreshold THEN 1 ELSE 0
ShiftIn(data, idx, counter) == [data EXCEPT ![idx] = data[idx] * 2 + BitOf(counter)]

\* lines 46-69: one iteration of the capture loop.  st holds j, the int[5]
\* buffer data, brk (the loop was left by the break of line 56) and oob (a
\* write to data[j / 8] with j / 8 > 4 landed outside the buffer).
LoopBody(st, train, i) ==
  LET counter == PulseCount(train, i) IN
    IF st.brk THEN st
    ELSE IF counter = PulseCap THEN [st EXCEPT !.brk = TRUE]
    ELSE IF (i >= 4) /\ (i % 2 = 0)
      THEN IF st.j \div 8 > 4
           THEN [st EXCEPT !.j = @ + 1, !.oob = TRUE]
           ELSE [st EXCEPT !.j = @ + 1, !.data = ShiftIn(@, st.j \div 8, counter)]
      ELSE st

\* line 44: for (i = lo; i <= hi; i++), the iterations applied in order
RECURSIVE CaptureLoop(_, _, _, _)
CaptureLoop(st, train, lo, hi) ==
  IF lo > hi THEN st
  ELSE IF lo = hi THEN LoopBody(st, train, lo)
  ELSE LET mid == (lo + hi) \div 2
           low == CaptureLoop(st, train, lo, mid)
       IN IF low.brk THEN low ELSE CaptureLoop(low, train, mid + 1, hi)

\* lines 28-30 and 44-70
Capture(train) ==
  CaptureLoop([j |-> 0, data |-> [k \in 0..4 |-> 0], brk |-> FALSE, oob |-> FALSE],
              train, 0, MAX_TIMINGS - 1)

ChecksumIgnored(j, data) == j >= 40

\* lines 73-74
ChecksumOk(j, data) ==
  (j >= 40) /\ (data[4] = ((data[0] + data[1] + data[2] + data[3]) % 256))

DecodeUnmasked(j, data) ==
  IF ChecksumOk(j, data)
  THEN [result |-> 0,
        humidity |-> Float(FALSE, data[0] * 256 + data[1]),
        temperature |-> Float(data[2] \div 128 = 1, data[2] * 256 + data[3])]
  ELSE [result |-> 1, humidity |-> Zero, temperature |-> Zero]

\* lines 76-82 and 86
Decode(j, data) ==
  IF ChecksumOk(j, data)
  THEN [result |-> 0,
        humidity |-> Float(FALSE, data[0] * 256 + data[1]),
        temperature |-> Float(data[2] \div 128 = 1, (data[2] % 128) * 256 + data[3])]
  ELSE [result |-> 1, humidity |-> Zero, temperature |-> Zero]

\* The function does not return: the write outside data[] hit the stack
\* canary, the check at the function's exit calls __stack_chk_fail and the
\* process is aborted.  result holds the exit status of the process.
StackSmashed == [result |-> EXIT_SIGABRT, humidity |-> Zero, temperature |-> Zero]

\* lines 26-90: the outcomes of one transaction on a pulse train.  A write
\* outside data[] is undefined behaviour: the build either leaves data[0..4]
\* and j as they are (the word after the buffer is unused stack), or, built
\* with a stack protector, aborts the process.
dht22_read_single_attempt(train) ==
  LET c == Capture(train) IN
    IF c.oob
    THEN {Decode(c.j, c.data), StackSmashed}
    ELSE {Decode(c.j, c.data)}

\* ------------------------------------------------------------- sensor side
\* The pulse train the sensor sends for a frame: 4 handshake pulses, then per
\* bit a high pulse (i even) and the low pulse that follows it.
BitAt(bytes, k) == (bytes[(k \div 8) + 1] \div (2 ^ (7 - (k % 8)))) % 2

DataPulses(bytes, nbits, short, long) ==
  [p \in 1..(2 * nbits) |->
     IF p % 2 = 0 THEN 50
     ELSE IF BitAt(bytes, ((p - 1) \div 2) % 40) = 1 THEN long ELSE short]

TrainOf(bytes, nbits, short, long) ==
  << 30, 80, 80, 50 >> \o DataPulses(bytes, nbits, short, long)

Sum8(bytes) == (bytes[1] + bytes[2] + bytes[3] + bytes[4]) % 256

\* the frame the sensor sends in the lifecycle model: 65.2 %, 34.9 C
FrameA == << 2, 140, 1, 93, 236 >>
\* FrameA with a corrupted checksum byte
FrameBad == << 2, 140, 1, 93, 229 >>
\* what a responding sensor can put on the line during one transaction:
\* a good frame, a corrupted one, a frame cut short after 39 bits, or a good
\* frame followed by one more pulse pair
SensorTrains ==
  { TrainOf(FrameA, 40, 20, 70), TrainOf(FrameBad, 40, 20, 70),
    TrainOf(FrameA, 39, 20, 70), TrainOf(FrameA, 41, 20, 70) }
\* gpioRead on pin -1 returns a constant error code: the level never changes
DeadTrain == << >>

\* -------------------------------------------------------------------- state
VARIABLES
  g_temperature_c, g_humidity, g_data_available,   \* lines 17-19
  g_data_mutex,       \* line 20: Free or the holder (Caller or a thread id)
  g_polling_thread,   \* line 21: id of the thread created last, 0 if none
  g_gpioPin,          \* line 22
  g_terminate_thread, \* line 23
  thr,                \* the polling threads: position and locals
  cancelReq,          \* running threads with a pending pthread_cancel request
  mpc, marg, mret, mresult,   \* the thread that calls the public functions:
                              \* position, pin argument, return value, and the
                              \* local result of line 206
  rtemp, rhum,        \* the caller's outputs of dht22_get_last_valid_reading
  succSince,          \* history, kept in SpecHist only: a transaction returned 0
                      \* since start_polling last accepted a start (line 152)
  dpc, dbytes, dnbits, dshort, dlong, dout   \* the decoder on its own

cache == << g_temperature_c, g_humidity, g_data_available >>
globals == << g_temperature_c, g_humidity, g_data_available, g_data_mutex,
              g_polling_thread, g_gpioPin, g_terminate_thread >>
mainVars == << mpc, marg, mret, mresult, rtemp, rhum >>
decVars == << dpc, dbytes, dnbits, dshort, dlong, dout >>
vars == << g_temperature_c, g_humidity, g_data_available, g_data_mutex,
           g_polling_thread, g_gpioPin, g_terminate_thread, thr, cancelReq,
           mpc, marg, mret, mresult, rtemp, rhum, succSince,
           dpc, dbytes, dnbits, dshort, dlong, dout >>

Threads == 1..MaxThreads

\* a thread's locals outside their scope are kept at these values.  The local
\* success (lines 105, 120, 123) is left out: it is 0 whenever line 120 reads
\* it, because line 124 leaves the loop right after line 123 sets it.
NoThread == [pc |-> "none", attempt |-> 0, result |-> -1,
             temp_c |-> Zero, hum |-> Zero, i |-> 0, pin |-> -1]

NoOutcome == [result |-> -1, humidity |-> Zero, temperature |-> Zero]

Init ==
  /\ g_temperature_c = Zero
  /\ g_humidity = Zero
  /\ g_data_available = 0
  /\ g_data_mutex = Free
  /\ g_polling_thread = 0
  /\ g_gpioPin = -1
  /\ g_terminate_thread = 0
  /\ thr = [t \in Threads |-> NoThread]
  /\ cancelReq = {}
  /\ mpc = "idle" /\ marg = -1 /\ mret = 0 /\ mresult = -1
  /\ rtemp = Unset /\ rhum = Unset
  /\ succSince = FALSE
  /\ dpc = "off" /\ dbytes = << 0, 0, 0, 0, 0 >> /\ dnbits = 0
  /\ dshort = 0 /\ dlong = 0 /\ dout = NoOutcome

\* ------------------------------------------------------- the polling thread
Alive(t) == thr[t].pc \notin {"none", "done", "gone", "aborted"}

\* The thread ends.  A thread that terminate gave up on (a cancellation
\* request is pending) is never joined: nothing of it remains.  Otherwise it
\* stays joinable.
End(t) ==
  /\ thr' = [thr EXCEPT ![t] = [NoThread EXCEPT !.pc = IF t \in cancelReq THEN "gone"
                                                         ELSE "done"]]
  /\ cancelReq' = cancelReq \ {t}

\* a pending cancellation request is acted on at a cancellation point
Cancel(t) ==
  /\ t \in cancelReq
  /\ End(t)

\* abort() ends the process: every polling thread and the caller of the
\* public functions with it
ProcessAbort ==
  /\ thr' = [u \in Threads |-> [NoThread EXCEPT !.pc = "aborted"]]
  /\ cancelReq' = {}
  /\ mpc' = "aborted"

thrFrame == << globals, mainVars, succSince, decVars >>

\* line 102: while (!g_terminate_thread); line 105; line 140
T_While(t) ==
  /\ thr[t].pc = "L102"
  /\ IF g_terminate_thread # 0
     THEN End(t)
     ELSE /\ thr' = [thr EXCEPT ![t].pc = "L106", ![t].attempt = 0]
          /\ UNCHANGED cancelReq
  /\ UNCHANGED thrFrame

T_ForAttemptIgnoresStop(t) ==
  /\ thr[t].pc = "L106"
  /\ IF thr[t].attempt < MAX_READ_ATTEMPTS
     THEN thr' = [thr EXCEPT ![t].pc = "L108"]
     ELSE thr' = [thr EXCEPT ![t].pc = "L135", ![t].attempt = 0, ![t].i = 0,
                             ![t].result = -1]
  /\ UNCHANGED << cancelReq, thrFrame >>

\* line 106: the condition of the retry loop
T_ForAttempt(t) ==
  /\ thr[t].pc = "L106"
  /\ IF thr[t].attempt < MAX_READ_ATTEMPTS /\ g_terminate_thread = 0
     THEN thr' = [thr EXCEPT ![t].pc = "L108"]
     ELSE thr' = [thr EXCEPT ![t].pc = "L135", ![t].attempt = 0, ![t].i = 0,
                             ![t].result = -1]
  /\ UNCHANGED << cancelReq, thrFrame >>

\* lines 108, 32-41: the call reads g_gpioPin and zeroes the outputs; then
\* gpioDelay(20000) sleeps, and may act on a pending cancellation
T_Call(t) ==
  /\ thr[t].pc = "L108"
  /\ \/ /\ thr' = [thr EXCEPT ![t].pc = "L44", ![t].pin = g_gpioPin, ![t].result = -1,
                              ![t].temp_c = Zero, ![t].hum = Zero]
        /\ UNCHANGED cancelReq
     \/ Cancel(t)
  /\ UNCHANGED thrFrame

PublishOnAnyButTimeout(result) == result # 2

\* line 110
PublishOn(result) == result = 0

\* lines 44-87 and 110: capture, decode, and the branch on the result.  On
\* the way to the break of line 124 the loop counter attempt is out of use.
T_Transaction(t) ==
  /\ thr[t].pc = "L44"
  /\ \E train \in (IF thr[t].pin # -1 THEN SensorTrains ELSE {DeadTrain}) :
       \E o \in dht22_read_single_attempt(train) :
         IF o = StackSmashed
         THEN ProcessAbort
         ELSE /\ thr' = [thr EXCEPT ![t].pc = IF PublishOn(o.result) THEN "L113"
                                              ELSE "L128",
                                    ![t].attempt = IF PublishOn(o.result) THEN 0 ELSE @,
                                    ![t].result = o.result, ![t].pin = -1,
                                    ![t].temp_c = o.temperature, ![t].hum = o.humidity]
              /\ UNCHANGED << cancelReq, mpc >>
  /\ UNCHANGED << globals, marg, mret, mresult, rtemp, rhum, decVars >>

T_Capture(t) ==
  /\ T_Transaction(t)
  /\ UNCHANGED succSince

\* line 113
T_Lock(t) ==
  /\ thr[t].pc = "L113"
  /\ g_data_mutex = Free
  /\ g_data_mutex' = t
  /\ thr' = [thr EXCEPT ![t].pc = "L114"]
  /\ UNCHANGED << cache, g_polling_thread, g_gpioPin, g_terminate_thread,
                  cancelReq, mainVars, succSince, decVars >>

\* line 114
T_WriteTemp(t) ==
  /\ thr[t].pc = "L114"
  /\ g_temperature_c' = thr[t].temp_c
  /\ thr' = [thr EXCEPT ![t].pc = "L115"]
  /\ UNCHANGED << g_humidity, g_data_available, g_data_mutex, g_polling_thread,
                  g_gpioPin, g_terminate_thread, cancelReq, mainVars,
                  succSince, decVars >>

\* line 115
T_WriteHum(t) ==
  /\ thr[t].pc = "L115"
  /\ g_humidity' = thr[t].hum
  /\ thr' = [thr EXCEPT ![t].pc = "L116"]
  /\ UNCHANGED << g_temperature_c, g_data_available, g_data_mutex, g_polling_thread,
                  g_gpioPin, g_terminate_thread, cancelReq, mainVars,
                  succSince, decVars >>

\* line 116
T_WriteAvail(t) ==
  /\ thr[t].pc = "L116"
  /\ g_data_available' = 1
  /\ thr' = [thr EXCEPT ![t].pc = "L117"]
  /\ UNCHANGED << g_temperature_c, g_humidity, g_data_mutex, g_polling_thread,
                  g_gpioPin, g_terminate_thread, cancelReq, mainVars,
                  succSince, decVars >>

T_UnlockAfterPrint(t) ==
  /\ thr[t].pc = "L117"
  /\ \/ /\ g_data_mutex' = Free
        /\ thr' = [thr EXCEPT ![t].pc = "L120"]
        /\ UNCHANGED cancelReq
     \/ /\ Cancel(t)
        /\ UNCHANGED g_data_mutex
  /\ UNCHANGED << cache, g_polling_thread, g_gpioPin, g_terminate_thread,
                  mainVars, succSince, decVars >>

\* line 117
T_Unlock(t) ==
  /\ thr[t].pc = "L117"
  /\ g_data_mutex' = Free
  /\ thr' = [thr EXCEPT ![t].pc = "L120"]
  /\ UNCHANGED << cache, g_polling_thread, g_gpioPin, g_terminate_thread,
                  cancelReq, mainVars, succSince, decVars >>

\* lines 120-124: printf may act on a pending cancellation; break
T_Print(t) ==
  /\ thr[t].pc = "L120"
  /\ \/ /\ thr' = [thr EXCEPT ![t].pc = "L135", ![t].attempt = 0, ![t].i = 0,
                              ![t].result = -1, ![t].temp_c = Zero, ![t].hum = Zero]
        /\ UNCHANGED cancelReq
     \/ Cancel(t)
  /\ UNCHANGED thrFrame

T_RetryAlways(t) ==
  /\ thr[t].pc = "L128"
  /\ IF thr[t].attempt < MAX_READ_ATTEMPTS /\ g_terminate_thread = 0
     THEN thr' = [thr EXCEPT ![t].pc = "L129"]
     ELSE thr' = [thr EXCEPT ![t].pc = "L106", ![t].attempt = @ + 1]
  /\ UNCHANGED << cancelReq, thrFrame >>

\* line 128: the condition of the retry delay, and attempt++ of line 106
T_RetryCheck(t) ==
  /\ thr[t].pc = "L128"
  /\ IF thr[t].attempt < MAX_READ_ATTEMPTS - 1 /\ g_terminate_thread = 0
     THEN thr' = [thr EXCEPT ![t].pc = "L129"]
     ELSE thr' = [thr EXCEPT ![t].pc = "L106", ![t].attempt = @ + 1]
  /\ UNCHANGED << cancelReq, thrFrame >>

\* line 129: usleep is a cancellation point; then attempt++ of line 106
T_Usleep(t) ==
  /\ thr[t].pc = "L129"
  /\ IF t \in cancelReq
     THEN Cancel(t)
     ELSE /\ thr' = [thr EXCEPT ![t].pc = "L106", ![t].attempt = @ + 1]
          /\ UNCHANGED cancelReq
  /\ UNCHANGED thrFrame

T_ForSleepIgnoresStop(t) ==
  /\ thr[t].pc = "L135"
  /\ IF thr[t].i < SENSOR_POLL_INTERVAL_SEC
     THEN thr' = [thr EXCEPT ![t].pc = "L136"]
     ELSE thr' = [thr EXCEPT ![t].pc = "L102", ![t].i = 0]
  /\ UNCHANGED << cancelReq, thrFrame >>

\* line 135: the condition of the inter-cycle wait
T_ForSleep(t) ==
  /\ thr[t].pc = "L135"
  /\ IF thr[t].i < SENSOR_POLL_INTERVAL_SEC /\ g_terminate_thread = 0
     THEN thr' = [thr EXCEPT ![t].pc = "L136"]
     ELSE thr' = [thr EXCEPT ![t].pc = "L102", ![t].i = 0]
  /\ UNCHANGED << cancelReq, thrFrame >>

\* line 136: sleep(1) is a cancellation point; then i++ of line 135
T_Sleep(t) ==
  /\ thr[t].pc = "L136"
  /\ IF t \in cancelReq
     THEN Cancel(t)
     ELSE /\ thr' = [thr EXCEPT ![t].pc = "L135", ![t].i = @ + 1]
          /\ UNCHANGED cancelReq
  /\ UNCHANGED thrFrame

dht22_polling_thread(t) ==
  \/ T_While(t) \/ T_ForAttempt(t) \/ T_Call(t) \/ T_Capture(t)
  \/ T_Lock(t) \/ T_WriteTemp(t) \/ T_WriteHum(t) \/ T_WriteAvail(t)
  \/ T_Unlock(t) \/ T_Print(t) \/ T_RetryCheck(t) \/ T_Usleep(t)
  \/ T_ForSleep(t) \/ T_Sleep(t)

\* ------------------------------------- the caller of the public functions
\* The public functions are called one after the other by one thread.
Callable == mpc \in {"idle", "ret149", "ret159", "ret163", "ret169", "ret176", "ret220"}

\* every call starts with fresh locals and outputs (mresult = -1: line 206
\* has not run)
Enter(pc, pin) ==
  /\ Callable
  /\ mpc' = pc /\ marg' = pin /\ mret' = 0 /\ mresult' = -1
  /\ rtemp' = Unset /\ rhum' = Unset

mainFrame == << thr, cancelReq, succSince, decVars >>

\* the thread ids pthread_create can hand out: those of no thread, and those
\* of threads that have ended and were joined or given up on
FreeIds == {t \in Threads : thr[t].pc \in {"none", "gone"}}

\* The calls of dht22_start_polling the caller makes: those that line 147
\* turns down, and those whose new thread the model has an id for (the bound
\* MaxThreads on the threads in existence).
StartFits == (g_gpioPin # -1) \/ (FreeIds # {})

\* line 145: the call
SP_Call(pin) ==
  /\ StartFits
  /\ Enter("L147", pin)
  /\ UNCHANGED << globals, mainFrame >>

\* line 149: the value returned when polling was already started
AlreadyStartedReturn == 0

\* lines 147-152
SP_CheckPin ==
  /\ mpc = "L147"
  /\ IF g_gpioPin # -1
     THEN /\ mpc' = "ret149" /\ mret' = AlreadyStartedReturn
          /\ UNCHANGED g_gpioPin
     ELSE /\ mpc' = "L153" /\ g_gpioPin' = marg
          /\ UNCHANGED mret
  /\ marg' = -1
  /\ UNCHANGED << mresult, rtemp, rhum, g_temperature_c, g_humidity, g_data_available,
                  g_data_mutex, g_polling_thread, g_terminate_thread, thr, cancelReq,
                  decVars >>

SP_Check ==
  /\ SP_CheckPin
  /\ UNCHANGED succSince

\* line 153
SP_ClearStop ==
  /\ mpc = "L153"
  /\ g_terminate_thread' = 0
  /\ mpc' = "L155"
  /\ UNCHANGED << marg, mret, mresult, rtemp, rhum, g_temperature_c, g_humidity,
                  g_data_available, g_data_mutex, g_polling_thread, g_gpioPin, mainFrame >>

\* lines 155, 162-163: pthread_create succeeds; the new thread starts at
\* line 102 (lines 99-100 touch only its signal mask)
SP_Create ==
  /\ mpc = "L155"
  /\ LET new == CHOOSE t \in FreeIds : \A u \in FreeIds : t <= u
     IN /\ g_polling_thread' = new
        /\ thr' = [thr EXCEPT ![new] = [NoThread EXCEPT !.pc = "L102"]]
  /\ mpc' = "ret163" /\ mret' = 0
  /\ UNCHANGED << marg, mresult, rtemp, rhum, g_temperature_c, g_humidity,
                  g_data_available, g_data_mutex, g_gpioPin, g_terminate_thread,
                  cancelReq, succSince, decVars >>

\* lines 155-159: pthread_create fails
SP_CreateFail ==
  /\ mpc = "L155"
  /\ g_gpioPin' = -1
  /\ mpc' = "ret159" /\ mret' = -1
  /\ UNCHANGED << marg, mresult, rtemp, rhum, g_temperature_c, g_humidity,
                  g_data_available, g_data_mutex, g_polling_thread,
                  g_terminate_thread, mainFrame >>

dht22_start_polling ==
  \/ \E pin \in Pins : SP_Call(pin)
  \/ SP_Check \/ SP_ClearStop \/ SP_Create \/ SP_CreateFail

\* line 194: the call
TM_Call ==
  /\ Enter("L196", -1)
  /\ UNCHANGED << globals, mainFrame >>

PinConfiguredAlways == TRUE

\* line 196
PinConfigured == g_gpioPin # -1

\* line 196
TM_Check ==
  /\ mpc = "L196"
  /\ mpc' = IF PinConfigured THEN "L199" ELSE "L218"
  /\ UNCHANGED << marg, mret, mresult, rtemp, rhum, globals, mainFrame >>

\* line 199
TM_SetStop ==
  /\ mpc = "L199"
  /\ g_terminate_thread' = 1
  /\ mpc' = "L206"
  /\ UNCHANGED << marg, mret, mresult, rtemp, rhum, g_temperature_c, g_humidity,
                  g_data_available, g_data_mutex, g_polling_thread, g_gpioPin, mainFrame >>

\* lines 206-208: pthread_timedjoin_np returns 0 once the thread has ended,
\* and releases it
TM_JoinClean ==
  /\ mpc = "L206"
  /\ thr[g_polling_thread].pc = "done"
  /\ thr' = [thr EXCEPT ![g_polling_thread].pc = "gone"]
  /\ mresult' = 0
  /\ mpc' = "L214"
  /\ UNCHANGED << marg, mret, rtemp, rhum, globals, cancelReq, succSince,
                  decVars >>

\* lines 206, 209-210: the 15 seconds pass while the thread is still running
TM_JoinTimeout ==
  /\ mpc = "L206"
  /\ thr[g_polling_thread].pc # "done"
  /\ mresult' = ETIMEDOUT
  /\ mpc' = "L211"
  /\ UNCHANGED << marg, mret, rtemp, rhum, globals, mainFrame >>

\* line 211: pthread_cancel only files a request (deferred cancellation); a
\* thread that has ended in the meantime is never joined
TM_Cancel ==
  /\ mpc = "L211"
  /\ IF thr[g_polling_thread].pc = "done"
     THEN /\ thr' = [thr EXCEPT ![g_polling_thread].pc = "gone"]
          /\ UNCHANGED cancelReq
     ELSE /\ cancelReq' = cancelReq \cup {g_polling_thread}
          /\ UNCHANGED thr
  /\ mpc' = "L214"
  /\ UNCHANGED << marg, mret, mresult, rtemp, rhum, globals, succSince,
                  decVars >>

\* line 214
TM_ResetPin ==
  /\ mpc = "L214"
  /\ g_gpioPin' = -1
  /\ mpc' = "L215"
  /\ UNCHANGED << marg, mret, mresult, rtemp, rhum, g_temperature_c, g_humidity,
                  g_data_available, g_data_mutex, g_polling_thread,
                  g_terminate_thread, mainFrame >>

\* line 215
TM_ResetAvail ==
  /\ mpc = "L215"
  /\ g_data_available' = 0
  /\ mpc' = "L218"
  /\ UNCHANGED << marg, mret, mresult, rtemp, rhum, g_temperature_c, g_humidity,
                  g_data_mutex, g_polling_thread, g_gpioPin, g_terminate_thread,
                  mainFrame >>

\* line 194: dht22_terminate is a void function; whatever line 206 returned,
\* its caller gets nothing
TerminateReturn(result) == 0

\* lines 218-220
TM_Return ==
  /\ mpc = "L218"
  /\ mpc' = "ret220" /\ mret' = TerminateReturn(mresult)
  /\ UNCHANGED << marg, mresult, rtemp, rhum, globals, mainFrame >>

dht22_terminate ==
  \/ TM_Call \/ TM_Check \/ TM_SetStop \/ TM_JoinClean \/ TM_JoinTimeout
  \/ TM_Cancel \/ TM_ResetPin \/ TM_ResetAvail \/ TM_Return

\* line 166: the call
GL_Call ==
  /\ Enter("L168", -1)
  /\ UNCHANGED << globals, mainFrame >>

\* lines 168-169: the flag is read before the lock is taken
GL_Check ==
  /\ mpc = "L168"
  /\ IF g_data_available = 0
     THEN mpc' = "ret169" /\ mret' = 1
     ELSE mpc' = "L171" /\ UNCHANGED mret
  /\ UNCHANGED << marg, mresult, rtemp, rhum, globals, mainFrame >>

\* line 171
GL_Lock ==
  /\ mpc = "L171"
  /\ g_data_mutex = Free
  /\ g_data_mutex' = Caller
  /\ mpc' = "L172"
  /\ UNCHANGED << marg, mret, mresult, rtemp, rhum, cache, g_polling_thread,
                  g_gpioPin, g_terminate_thread, mainFrame >>

\* line 172
GL_ReadTemp ==
  /\ mpc = "L172"
  /\ rtemp' = g_temperature_c
  /\ mpc' = "L173"
  /\ UNCHANGED << marg, mret, mresult, rhum, globals, mainFrame >>

\* line 173
GL_ReadHum ==
  /\ mpc = "L173"
  /\ rhum' = g_humidity
  /\ mpc' = "L174"
  /\ UNCHANGED << marg, mret, mresult, rtemp, globals, mainFrame >>

\* lines 174-176
GL_Unlock ==
  /\ mpc = "L174"
  /\ g_data_mutex' = Free
  /\ mpc' = "ret176" /\ mret' = 0
  /\ UNCHANGED << marg, mresult, rtemp, rhum, cache, g_polling_thread, g_gpioPin,
                  g_terminate_thread, mainFrame >>

dht22_get_last_valid_reading ==
  \/ GL_Call \/ GL_Check \/ GL_Lock \/ GL_ReadTemp \/ GL_ReadHum \/ GL_Unlock

\* --------------------------------------------------------- specification
Next ==
  \/ dht22_start_polling
  \/ dht22_terminate
  \/ dht22_get_last_valid_reading
  \/ \E t \in Threads : dht22_polling_thread(t)

Spec == Init /\ [][Next]_vars

\* ------------------------------------------- the program with its history
\* lines 44-87 and 110, recording a transaction that returned 0
T_CaptureHist(t) ==
  /\ T_Transaction(t)
  /\ succSince' = (succSince \/ thr'[t].result = 0)

\* lines 147-152, recording that a start was accepted
SP_CheckHist ==
  /\ SP_CheckPin
  /\ succSince' = (succSince /\ g_gpioPin # -1)

dht22_polling_threadHist(t) ==
  \/ T_While(t) \/ T_ForAttempt(t) \/ T_Call(t) \/ T_CaptureHist(t)
  \/ T_Lock(t) \/ T_WriteTemp(t) \/ T_WriteHum(t) \/ T_WriteAvail(t)
  \/ T_Unlock(t) \/ T_Print(t) \/ T_RetryCheck(t) \/ T_Usleep(t)
  \/ T_ForSleep(t) \/ T_Sleep(t)

dht22_start_pollingHist ==
  \/ \E pin \in Pins : SP_Call(pin)
  \/ SP_CheckHist \/ SP_ClearStop \/ SP_Create \/ SP_CreateFail

NextHist ==
  \/ dht22_start_pollingHist
  \/ dht22_terminate
  \/ dht22_get_last_valid_reading
  \/ \E t \in Threads : dht22_polling_threadHist(t)

SpecHist == Init /\ [][NextHist]_vars

\* ------------------------------------------------- the decoder on its own
\* the bytes of the frames handed to the decoder, and the ways the fifth byte
\* can differ from their sum
Byte0 == {0, 2, 255}
Byte1 == {0, 140, 255}
Byte2 == {0, 1, 128, 129, 255}
Byte3 == {0, 93, 255}
ChecksumOffsets == {0, 1, 128, 255}
\* the number of data bits the sensor sends before the line goes quiet
BitCounts == {0, 39, 40, 41}
\* the counts of the high pulse of a 0 bit and of a 1 bit
ShortCounts == {1, 25}
LongCounts == {26, 254}

DecodeInit ==
  /\ g_temperature_c = Zero
  /\ g_humidity = Zero
  /\ g_data_available = 0
  /\ g_data_mutex = Free
  /\ g_polling_thread = 0
  /\ g_gpioPin = -1
  /\ g_terminate_thread = 0
  /\ thr = [t \in Threads |-> NoThread]
  /\ cancelReq = {}
  /\ mpc = "idle" /\ marg = -1 /\ mret = 0 /\ mresult = -1
  /\ rtemp = Unset /\ rhum = Unset
  /\ succSince = FALSE
  /\ dpc = "input"
  /\ \E b0 \in Byte0, b1 \in Byte1, b2 \in Byte2, b3 \in Byte3, off \in ChecksumOffsets :
       dbytes = << b0, b1, b2, b3, (b0 + b1 + b2 + b3 + off) % 256 >>
  /\ dnbits \in BitCounts
  /\ dshort \in ShortCounts
  /\ dlong \in LongCounts
  /\ dout = NoOutcome

\* lines 26-90: one transaction on the pulse train of the frame
D_Read ==
  /\ dpc = "input"
  /\ dout' \in dht22_read_single_attempt(TrainOf(dbytes, dnbits, dshort, dlong))
  /\ dpc' = IF dout' = StackSmashed THEN "aborted" ELSE "done"
  /\ UNCHANGED << globals, thr, cancelReq, mainVars, succSince,
                  dbytes, dnbits, dshort, dlong >>

DecodeNext == D_Read

SpecDecode == DecodeInit /\ [][DecodeNext]_vars

TypeOK ==
  /\ g_data_available \in {0, 1}
  /\ g_terminate_thread \in {0, 1}
  /\ g_gpioPin \in Pins \cup {-1}
  /\ g_data_mutex \in {Free, Caller} \cup Threads
  /\ cancelReq \subseteq Threads
  /\ g_polling_thread \in {0} \cup Threads
  /\ mpc \in {"L153", "L155"} => FreeIds # {}

\* ----------------------------------------------------------------- claims
\* a step of the caller of the public functions (the step in which abort()
\* ends the process is a step of a polling thread)
CallerStep == mpc' # mpc /\ mpc' # "aborted"

\* the reading of FrameA: 34.9 C, 65.2 %
TempA == Float(FALSE, 349)
HumA == Float(FALSE, 652)

\* C1: whenever dht22_get_last_valid_reading has returned a reading, a
\* transaction has succeeded since start_polling last accepted a start, and
\* the reading is the temperature and the humidity of one transaction.
C1_ReadingIsOfThisSession ==
  (mpc = "ret176") => (succSince /\ rtemp = TempA /\ rhum = HumA)

\* The part of C1 that the code keeps: a returned reading is never a mix of
\* the fields of two transactions (nor of a transaction and the initial zeros).
ReturnedPairIsWhole ==
  (mpc = "ret176") => (rtemp = TempA /\ rhum = HumA)

\* C2: the step of start_polling that finds a pin configured returns a value
\* that differs from the 0 of a successful start, creates no thread, and
\* leaves the pin and the stop flag as they are.
C2_AlreadyRunningIsAnError ==
  [][ (mpc = "L147" /\ g_gpioPin # -1 /\ CallerStep)
      => /\ mpc' = "ret149" /\ mret' # 0
         /\ thr' = thr
         /\ g_gpioPin' = g_gpioPin /\ g_terminate_thread' = g_terminate_thread ]_vars

\* C3: at the return of a terminate that found a pin configured, whether its
\* join was clean or timed out, no pin is configured and the availability
\* flag is 0.
C3_TerminateResets ==
  [][ (mpc = "L218" /\ mpc' = "ret220" /\ mresult # -1)
      => (g_gpioPin' = -1 /\ g_data_available' = 0) ]_vars

\* C4: every step of a terminate that finds no pin configured reports no
\* error, goes nowhere near the join and the cancel, and leaves the pin, the
\* stop flag, the reading cache, the lock and the threads as they are.
C4_TerminateWithoutPinIsNoop ==
  [][ (((mpc = "L196" /\ g_gpioPin = -1) \/ (mpc = "L218" /\ mresult = -1)) /\ CallerStep)
      => /\ mpc' \in {"L218", "ret220"} /\ mret' = 0 /\ mresult' = -1
         /\ g_gpioPin' = g_gpioPin /\ g_terminate_thread' = g_terminate_thread
         /\ cache' = cache /\ g_data_mutex' = g_data_mutex
         /\ thr' = thr /\ cancelReq' = cancelReq ]_vars

\* C4's case: terminate has returned without work after an earlier session
\* was terminated.
C4_Witness ==
  mpc = "ret220" /\ mresult = -1 /\ g_polling_thread # 0 /\ g_data_available = 0

\* C5: a terminate whose join timed out hands its caller a value that differs
\* from the 0 of a clean shutdown.
C5_TimeoutIsSurfaced ==
  (mpc = "ret220" /\ mresult = ETIMEDOUT) => (mret # 0)

\* C6: a step of a polling thread whose last transaction did not succeed
\* leaves g_temperature_c, g_humidity and g_data_available as they are.
C6_FailedAttemptsLeaveCache ==
  [][ \A t \in Threads :
        (thr[t]' # thr[t] /\ thr[t].pc # "none" /\ thr[t].result # 0)
        => cache' = cache ]_vars

\* C6's case: all 5 attempts of a cycle have failed while the cache holds an
\* earlier reading.
C6_Witness ==
  \E t \in Threads :
    /\ thr[t].pc = "L106" /\ thr[t].attempt = MAX_READ_ATTEMPTS /\ thr[t].result = 1
    /\ g_data_available = 1 /\ g_temperature_c = TempA /\ g_humidity = HumA

\* C7: in a living process whoever holds the data lock is inside its critical
\* section, where nothing blocks it and no cancellation acts on it: a polling
\* thread between lines 113 and 117, also one with a pending cancellation
\* request, or the caller between lines 171 and 174.
C7_LockHolderReleases ==
  (mpc # "aborted")
  => /\ g_data_mutex \in Threads
          => thr[g_data_mutex].pc \in {"L114", "L115", "L116", "L117"}
     /\ g_data_mutex = Caller => mpc \in {"L172", "L173", "L174"}
     /\ mpc \in {"L172", "L173", "L174"} => g_data_mutex = Caller

\* C7's case: a thread that terminate gave up on and asked to cancel holds
\* the lock.
C7_Witness ==
  \E t \in cancelReq : g_data_mutex = t /\ mpc = "ret220"

\* C8: whoever is at a statement that reads or writes g_temperature_c,
\* g_humidity or g_data_available holds the data lock; only the polling
\* threads are ever at a statement that writes them; and a polling thread
\* that holds the lock is at one of the copy statements or at the unlock.
C8_AllAccessUnderLock ==
  /\ mpc \in {"L168", "L172", "L173", "L215"} => g_data_mutex = Caller
  /\ mpc # "L215"
  /\ \A t \in Threads :
       /\ thr[t].pc \in {"L114", "L115", "L116"} => g_data_mutex = t
       /\ g_data_mutex = t => thr[t].pc \in {"L114", "L115", "L116", "L117"}

\* C9: a frame of exactly 40 data bits whose fifth byte is the sum of the
\* first four decodes to result 0, humidity (b0 << 8 | b1) tenths and
\* temperature ((b2 & 0x7F) << 8 | b3) tenths, with the sign bit of b2.
C9_ValidFrameDecodes ==
  (dpc = "done" /\ dnbits = 40 /\ dbytes[5] = Sum8(dbytes))
  => /\ dout.result = 0
     /\ dout.humidity = Float(FALSE, dbytes[1] * 256 + dbytes[2])
     /\ dout.temperature = Float(dbytes[3] >= 128, (dbytes[3] % 128) * 256 + dbytes[4])

\* C9's case: a valid frame with the sign bit set and the shortest 1 pulse
\* has been decoded.
C9_Witness ==
  /\ dpc = "done" /\ dnbits = 40 /\ dbytes = << 2, 140, 129, 93, 108 >>
  /\ dshort = 25 /\ dlong = 26
  /\ dout = [result |-> 0, humidity |-> Float(FALSE, 652),
             temperature |-> Float(TRUE, 349)]

\* C10: a frame of 40 data bits whose fifth byte differs from the sum of the
\* first four decodes to result 1 (checksum failure), never 0, and both
\* outputs stay 0.
C10_BadChecksumFails ==
  (dpc = "done" /\ dnbits = 40 /\ dbytes[5] # Sum8(dbytes))
  => (dout.result = 1 /\ dout.humidity = Zero /\ dout.temperature = Zero)

\* C10's case: the frame 02 8C 01 5D with the checksum byte one off.
C10_Witness ==
  /\ dpc = "done" /\ dnbits = 40 /\ dbytes = << 2, 140, 1, 93, 237 >>
  /\ dout.result = 1

\* ------------------------------------------------ claims on the decoder
\* line 86 and line 89: the two failure values the function names
ChecksumFailure == 1
TimeoutFailure == 2

\* lines 44-70 on the pulse train of the decoder's input frame
DCapture == Capture(TrainOf(dbytes, dnbits, dshort, dlong))

\* C11: a transaction whose capture produced fewer than 40 data bits returns
\* the timeout failure (2), a value that differs from the checksum failure (1).
C11_ShortCaptureIsTimeout ==
  (dpc = "done" /\ DCapture.j < 40)
  => (dout.result = TimeoutFailure /\ dout.result # ChecksumFailure)

\* C16: a transaction whose capture produced a number of data bits other than
\* 40, fewer or more, does not return success.
C16_SuccessNeedsExactly40 ==
  (dpc = "done" /\ DCapture.j # 40) => dout.result # 0

\* C18: in a finished transaction every write of lines 61 and 66 went to
\* data[0..4]: none landed outside the buffer.
C18_WritesStayInBuffer ==
  (dpc \in {"done", "aborted"}) => ~DCapture.oob

\* --------------------------------------------- claims on ended sessions
\* the loop of a session whose terminate gave up on it (the join of line 206
\* timed out, line 211 asked it to cancel) and has returned
TerminatedLoop(t) ==
  /\ t \in cancelReq
  /\ (t # g_polling_thread) \/ (mpc \notin {"L214", "L215", "L218"})

\* C19: a step of the loop of a session that terminate has ended leaves
\* g_temperature_c, g_humidity and g_data_available as they are, also when
\* the join timed out; and with no session started since, a call of
\* dht22_get_last_valid_reading reports 'no data'.
C19_TerminatedLoopIsSilent ==
  [][ /\ \A t \in Threads :
           (TerminatedLoop(t) /\ thr[t]' # thr[t]) => cache' = cache
      /\ (mpc = "L168" /\ g_gpioPin = -1 /\ CallerStep) => mpc' = "ret169" ]_vars

\* C20: at most one polling thread is executing at any time.
C20_OneLoopAtATime ==
  Cardinality({t \in Threads : Alive(t)}) <= 1

\* ------------------------------------------- claims on the polling loop
\* the positions of the retry loop of lines 106-131 outside the publication
RetryPcs == {"L106", "L108", "L44", "L128", "L129"}
\* the positions of a successful attempt, lines 113-124
PublishPcs == {"L113", "L114", "L115", "L116", "L117", "L120"}

\* C12: a polling thread stops running only when the stop flag is set or a
\* cancellation was requested, whatever the sensor sends; after the fifth
\* failed attempt of a cycle it goes to the inter-cycle wait, from the wait
\* (with no stop requested) back to line 102, and from there into the first
\* attempt of the next cycle.
C12_FailuresNeverEndLoop ==
  [][ \A t \in Threads :
        LET a == thr[t]
            b == thr[t]'
        IN /\ (Alive(t) /\ b.pc \in {"done", "gone", "aborted"})
                => (g_terminate_thread # 0 \/ t \in cancelReq)
           /\ (a.pc = "L106" /\ a.attempt = MAX_READ_ATTEMPTS /\ b # a)
                => b.pc \in {"L135", "aborted"}
           /\ (a.pc \in {"L135", "L136"} /\ b # a /\ g_terminate_thread = 0
                 /\ t \notin cancelReq)
                => b.pc \in {"L135", "L136", "L102", "aborted"}
           /\ (a.pc = "L135" /\ a.i = SENSOR_POLL_INTERVAL_SEC /\ b # a)
                => b.pc \in {"L102", "aborted"}
           /\ (a.pc = "L102" /\ b # a /\ g_terminate_thread = 0)
                => ((b.pc = "L106" /\ b.attempt = 0) \/ b.pc = "aborted")
           /\ (a.pc = "L106" /\ a.attempt = 0 /\ b # a /\ g_terminate_thread = 0)
                => b.pc \in {"L108", "aborted"} ]_vars

\* C13: a transaction starts only with attempt < 5; attempt counts the failed
\* transactions of the cycle; a successful transaction is followed by the
\* publication and the inter-cycle wait, with no further transaction and no
\* retry delay; the retry delay of line 129 starts only after a failed attempt
\* that is not the fifth, and is followed by the check of the next attempt.
C13_AttemptsAndDelays ==
  [][ \A t \in Threads :
        LET a == thr[t]
            b == thr[t]'
        IN /\ b.pc \in {"L108", "L44"} => b.attempt < MAX_READ_ATTEMPTS
           /\ (a.pc \in RetryPcs /\ b.pc \in RetryPcs)
                => b.attempt = a.attempt +
                     (IF a.pc \in {"L128", "L129"} /\ b.pc = "L106" THEN 1 ELSE 0)
           /\ (a.pc = "L44" /\ b # a /\ b.pc # "aborted")
                => (b.pc = IF b.result = 0 THEN "L113" ELSE "L128")
           /\ (a.pc \in PublishPcs /\ b # a)
                => b.pc \in PublishPcs \cup {"L135", "done", "gone", "aborted"}
           /\ (b.pc = "L129")
                => /\ a.pc \in {"L128", "L129"}
                   /\ b.result # 0
                   /\ b.attempt < MAX_READ_ATTEMPTS - 1
           /\ (a.pc = "L129" /\ b # a)
                => b.pc \in {"L106", "done", "gone", "aborted"} ]_vars

\* C13's case: the fifth attempt of a cycle has failed with no stop
\* requested: no retry delay may follow.
C13_Witness ==
  \E t \in Threads :
    /\ thr[t].pc = "L128" /\ thr[t].attempt = MAX_READ_ATTEMPTS - 1
    /\ thr[t].result = 1 /\ g_terminate_thread = 0 /\ t \notin cancelReq

\* C14: while the stop flag is set, the loop starts no transaction other than
\* one whose check of line 106 had already passed, and no retry delay other
\* than one whose check of line 128 had already passed; the check of line 106
\* leaves the retry loop and the check of line 128 skips the delay.
C14_StopAbortsCycle ==
  [][ \A t \in Threads :
        LET a == thr[t]
            b == thr[t]'
        IN (g_terminate_thread # 0)
           => /\ (b.pc = "L108") => (a.pc = "L108")
              /\ (b.pc = "L129") => (a.pc = "L129")
              /\ (a.pc = "L106" /\ b # a) => (b.pc \in {"L135", "aborted"})
              /\ (a.pc = "L128" /\ b # a) => (b.pc \in {"L106", "aborted"}) ]_vars

\* C14's case: terminate has set the stop flag and waits in the join while
\* the loop, after a failed attempt, is at the check of line 106 with
\* attempts left.
C14_Witness ==
  \E t \in Threads :
    /\ mpc = "L206" /\ g_terminate_thread = 1 /\ t \notin cancelReq
    /\ thr[t].pc = "L106" /\ thr[t].attempt \in 1..(MAX_READ_ATTEMPTS - 1)

\* ------------------------------------------------------ fair scheduling
\* the statements of dht22_polling_thread at which a thread takes its steps
Statements == {"L102", "L106", "L108", "L44", "L113", "L114", "L115", "L116", "L117",
               "L120", "L128", "L129", "L135", "L136"}

\* No polling thread stays at a statement for ever.  At every statement but
\* the lock of line 113 the thread's step is enabled as long as the thread is
\* there, and the step leaves the statement: this is weak fairness of the
\* step (for line 44: the transaction returns, it runs at most 85 pulses of
\* at most 255 counts).  At line 113 it is strong fairness of
\* pthread_mutex_lock: the holders of the lock are fair too, so the lock is
\* free again and again.  The caller, once it holds the lock, runs to its
\* unlock (lines 172-174).
Fairness ==
  /\ \A t \in Threads : \A pc \in Statements : []<>(thr[t].pc # pc)
  /\ WF_vars(GL_ReadTemp \/ GL_ReadHum \/ GL_Unlock)

SpecFair == Init /\ [][Next]_vars /\ Fairness

\* C15: as long as the stop flag stays set, a running polling thread
\* eventually ends (its body returns, or a requested cancellation or the end
\* of the process ends it), from whichever line it is at; and while the flag is set it enters no sleep
\* increment of line 136 other than one whose check of line 135 had already
\* passed.
C15_StopIsHonoured ==
  /\ \A t \in Threads :
       (g_terminate_thread # 0 /\ Alive(t)) ~> (~Alive(t) \/ g_terminate_thread = 0)
  /\ [][ \A t \in Threads :
           (g_terminate_thread # 0 /\ thr[t]'.pc = "L136") => thr[t].pc = "L136" ]_vars

\* C15's case: the stop flag was set while the loop was in the inter-cycle
\* wait, and the loop has ended with terminate still in its join.
C15_Witness ==
  \E t \in Threads :
    /\ mpc = "L206" /\ g_terminate_thread = 1 /\ g_polling_thread = t
    /\ thr[t].pc = "done" /\ g_data_available = 1

\* The order of a restart: line 152 records the pin, line 153 then clears the
\* stop flag, and line 155 creates the thread only after both, with the flag
\* clear at the creation.
RestartOrder ==
  /\ [][ (mpc = "L147" /\ g_gpioPin = -1 /\ CallerStep)
         => (g_gpioPin' = marg /\ mpc' = "L153" /\ thr' = thr) ]_vars
  /\ [][ (mpc = "L153" /\ CallerStep)
         => (g_terminate_thread' = 0 /\ mpc' = "L155" /\ thr' = thr) ]_vars
  /\ [][ (mpc = "L155" /\ mpc' = "ret163")
         => /\ g_gpioPin \in Pins /\ g_gpioPin' = g_gpioPin
            /\ g_terminate_thread = 0 /\ g_terminate_thread' = 0
            /\ thr[g_polling_thread'].pc \in {"none", "gone"}
            /\ thr'[g_polling_thread'].pc = "L102" ]_vars

\* C17: a start_polling that finds no pin configured records the pin it was
\* given (line 152), then clears the stop flag (line 153), and only then
\* creates the thread (line 155): at its creation the flag is clear; and under
\* fair scheduling a loop at line 102 with the flag clear gets to a sensor
\* transaction unless the flag is set again.
C17_RestartIsFresh ==
  /\ RestartOrder
  /\ \A t \in Threads :
       (thr[t].pc = "L102" /\ g_terminate_thread = 0 /\ t \notin cancelReq)
       ~> (thr[t].pc = "L44" \/ g_terminate_thread # 0)

\* The part of C17 that the code keeps: the order of lines 152, 153 and 155,
\* the flag clear at the creation of the thread, and the way of the new loop
\* into its first transaction as long as the process lives.
RestartIsFreshWhileAlive ==
  /\ RestartOrder
  /\ \A t \in Threads :
       (thr[t].pc = "L102" /\ g_terminate_thread = 0 /\ t \notin cancelReq)
       ~> (thr[t].pc = "L44" \/ g_terminate_thread # 0 \/ mpc = "aborted")
====
